---- MODULE Spec2Model ----
(***************************************************************************)
(* A model of sec_subsidiaries.py: the retrying fetcher get_with_retry,    *)
(* the four resolution stages (get_cik, get_10k_accession,                 *)
(* get_exhibit_21_url, parse_subsidiaries) and the orchestration           *)
(* (process_company, save_results, main).                                  *)
(*                                                                         *)
(* Text is modelled as a sequence of one-character strings, so that        *)
(* startswith, replace, lower, strip, the substring test and the regular   *)
(* expression of the source are computed character by character.           *)
(* Durations are in tenths of a second (time.sleep(0.1) is 1).             *)
(***************************************************************************)
EXTENDS Integers, Sequences, FiniteSets, TLC

VARIABLES
    \* ---- get_with_retry, one call ----
    f_outs,      \* what the upstream answers to the successive requests
    f_max,       \* the max_retries argument
    f_wait,      \* the initial_wait argument (seconds)
    f_called,    \* whether the call has returned
    f_ret,       \* the call's result: the value returned and what it did
    \* ---- get_10k_accession, one call ----
    g_resp,      \* what get_with_retry returned
    g_body,      \* the submissions record of the response
    g_year,      \* the year argument
    g_called,
    g_ret,       \* the accession returned
    \* ---- get_exhibit_21_url, one call ----
    x_resp,
    x_body,      \* the document index of the response
    x_called,
    x_ret,       \* the URL returned
    \* ---- parse_subsidiaries, one call ----
    p_resp,
    p_doc,       \* the exhibit document of the response
    p_called,
    p_ret,       \* the list returned
    \* ---- main, process_company, save_results ----
    pc,          \* where main is: "main" (305), "get_cik" (215), "year" (222),
                 \* "filing" (225), "exhibit" (230), "parse" (235),
                 \* "return" (248, then 308), "sleep" (310), "done"
    ci,          \* index of the company being processed, 0 before the first
    cik,         \* process_company's cik
    year,        \* process_company's loop variable
    accession,   \* process_company's accession
    url,         \* process_company's url
    results,     \* process_company's results, then save_results' argument
    year_log,    \* per year, the last thing process_company logged about it
    cik_errors,  \* how often line 217 logged for this company
    requested,   \* the stages that issued an HTTP request for this company
    exc,         \* whether the handler on line 245 ran for this company
    save_log,    \* what save_results logged for this company
    sink,        \* the files under subsidiaries/, by file name
    cik_calls,   \* how often get_cik was called for this company
    ids_used,    \* the cik arguments of this company's stage calls
    saves,       \* how often main has called save_results
    sleeps,      \* how often main and process_company have called
                 \* time.sleep themselves (get_with_retry's calls apart)
    \* ---- one (company, year) of process_company, run again ----
    r_up,        \* what the upstream answers to the three stages' requests
    r_year,      \* the year
    r_runs       \* what the successive runs of lines 225-243 produced

fvars == <<f_outs, f_max, f_wait, f_called, f_ret>>
gvars == <<g_resp, g_body, g_year, g_called, g_ret>>
xvars == <<x_resp, x_body, x_called, x_ret>>
pvars == <<p_resp, p_doc, p_called, p_ret>>
mvars == <<pc, ci, cik, year, accession, url, results, year_log, cik_errors,
           requested, exc, save_log, sink, cik_calls, ids_used, saves, sleeps>>
rvars == <<r_up, r_year, r_runs>>
vars == <<fvars, gvars, xvars, pvars, mvars, rvars>>

--------------------------------------------------------------------------
(* Bounds *)

\* Length of the upstream's scripted answers to one get_with_retry call.
MaxOuts == 4

\* The year datetime.now().year gives (the range starts at 2018).
CurrentYear == 2019

\* Entries of a submissions record.
MaxFilings == 3

\* Items of a document index.
MaxItems == 3

\* Tables of an exhibit document, and lines of text outside its tables.
MaxTables == 1
MaxLines == 3

\* How often one (company, year) is run against the same upstream.
MaxRuns == 2

\* Rows of companies.csv.
NumCompanies == 2

--------------------------------------------------------------------------
(* Python values *)

\* The value None.
None == [isNone |-> TRUE, status |-> 0]

\* A requests.Response with the given status code.
Response(code) == [isNone |-> FALSE, status |-> code]

\* bool(response): requests.Response.__bool__ is Response.ok, status < 400.
Truthy(resp) == ~resp.isNone /\ resp.status < 400

--------------------------------------------------------------------------
(* get_with_retry (lines 38-81) *)

\* An upstream outcome that is a raised requests.exceptions.RequestException.
RequestException == -1

Outcomes == {200, 404, 429, 403, RequestException}

\* time.sleep(0.1) before each request, in tenths of a second.
RequestSleep == 1

\* The fixed wait after a 403, in tenths of a second (10 s).
ForbiddenWait == 100

DefaultMaxRetries == 3
DefaultInitialWait == 1

Sleep(t) == [e |-> "sleep", t |-> t]
Request == [e |-> "request", t |-> 0]

\* A variant that grows linearly with the attempt.
BackoffWaitLinear(initial_wait, attempt) == 10 * initial_wait * (attempt + 1)

\* wait_time = initial_wait * (2 ** attempt), in tenths of a second.
BackoffWait(initial_wait, attempt) == 10 * initial_wait * (2 ^ attempt)

\* The body of `for attempt in range(max_retries)` from iteration `attempt`
\* on; ev is what the call has done so far.
RECURSIVE RetryLoop(_, _, _, _, _)
RetryLoop(outs, attempt, max_retries, initial_wait, ev) ==
    IF attempt >= max_retries
    THEN [resp |-> None, events |-> ev]                             \* line 81
    ELSE
      LET o   == outs[attempt + 1]
          ev1 == ev \o <<Sleep(RequestSleep), Request>>             \* 51-55
      IN  IF o = RequestException
          THEN IF attempt < max_retries - 1                         \* 73
               THEN RetryLoop(outs, attempt + 1, max_retries, initial_wait,
                        Append(ev1, Sleep(BackoffWait(initial_wait, attempt))))
               ELSE [resp |-> None, events |-> ev1]                 \* 79
          ELSE IF o = 429                                           \* 57-61
          THEN RetryLoop(outs, attempt + 1, max_retries, initial_wait,
                   Append(ev1, Sleep(BackoffWait(initial_wait, attempt))))
          ELSE IF o = 403                                           \* 63-67
          THEN RetryLoop(outs, attempt + 1, max_retries, initial_wait,
                   Append(ev1, Sleep(ForbiddenWait)))
          ELSE [resp |-> Response(o), events |-> ev1]               \* 69

\* A variant that returns the last response once the budget is spent.
RECURSIVE RetryLoopKeepLast(_, _, _, _, _)
RetryLoopKeepLast(outs, attempt, max_retries, initial_wait, ev) ==
    IF attempt >= max_retries
    THEN [resp |-> IF max_retries > 0 /\ outs[max_retries] # RequestException
                   THEN Response(outs[max_retries]) ELSE None,
          events |-> ev]
    ELSE
      LET o   == outs[attempt + 1]
          ev1 == ev \o <<Sleep(RequestSleep), Request>>
      IN  IF o \in {RequestException, 429}
          THEN RetryLoopKeepLast(outs, attempt + 1, max_retries, initial_wait,
                   Append(ev1, Sleep(BackoffWait(initial_wait, attempt))))
          ELSE IF o = 403
          THEN RetryLoopKeepLast(outs, attempt + 1, max_retries, initial_wait,
                   Append(ev1, Sleep(ForbiddenWait)))
          ELSE [resp |-> Response(o), events |-> ev1]

get_with_retry_keep_last(outs, max_retries, initial_wait) ==
    RetryLoopKeepLast(outs, 0, max_retries, initial_wait, <<>>)

\* A variant that gives up at the first transport failure.
get_with_retry_exception_fatal(outs, max_retries, initial_wait) ==
    LET raised == {j \in 1..max_retries : outs[j] = RequestException}
    IN  RetryLoop(outs, 0,
                  IF raised = {} THEN max_retries
                  ELSE CHOOSE j \in raised : \A k \in raised : j <= k,
                  initial_wait, <<>>)

\* A variant without the time.sleep(0.1) before a request.
get_with_retry_no_request_sleep(outs, max_retries, initial_wait) ==
    LET r == RetryLoop(outs, 0, max_retries, initial_wait, <<>>)
    IN  [resp |-> r.resp,
         events |-> SelectSeq(r.events, LAMBDA e : e # Sleep(RequestSleep))]

\* A variant that also retries, with backoff, on a 404.
get_with_retry_retrying_404(outs, max_retries, initial_wait) ==
    RetryLoop([i \in 1..Len(outs) |-> IF outs[i] = 404 THEN 429 ELSE outs[i]],
              0, max_retries, initial_wait, <<>>)

get_with_retry(outs, max_retries, initial_wait) ==
    RetryLoop(outs, 0, max_retries, initial_wait, <<>>)

\* What a call did, read off its events.
Requests(ev) == Cardinality({i \in 1..Len(ev) : ev[i].e = "request"})

RECURSIVE BackoffFrom(_, _)
BackoffFrom(ev, i) ==
    IF i > Len(ev) THEN 0
    ELSE (IF ev[i].e = "sleep" /\ ~(i < Len(ev) /\ ev[i + 1].e = "request")
          THEN ev[i].t ELSE 0)
         + BackoffFrom(ev, i + 1)

\* The waiting done after responses (backoff and cooldown), in tenths of a
\* second, leaving out the time.sleep(0.1) that precedes each request.
BackoffTotal(ev) == BackoffFrom(ev, 1)

--------------------------------------------------------------------------
(* Text: a str is a sequence of one-character strings *)

\* The character U+2022, the bullet of the pattern on line 201.
Bullet == "BULLET"

UpperAZ == {"A", "B", "C", "D", "E", "F", "G", "H", "I", "J", "K", "L", "M",
            "N", "O", "P", "Q", "R", "S", "T", "U", "V", "W", "X", "Y", "Z"}

Uppers == <<"A", "B", "C", "D", "E", "F", "G", "H", "I", "J", "K", "L", "M",
            "N", "O", "P", "Q", "R", "S", "T", "U", "V", "W", "X", "Y", "Z">>

Lowers == <<"a", "b", "c", "d", "e", "f", "g", "h", "i", "j", "k", "l", "m",
            "n", "o", "p", "q", "r", "s", "t", "u", "v", "w", "x", "y", "z">>

Digits == <<"0", "1", "2", "3", "4", "5", "6", "7", "8", "9">>

Whitespace == {" ", "\t", "\n", "\r"}

\* c.lower() of one character.
LowerChar(c) ==
    IF c \in UpperAZ
    THEN Lowers[CHOOSE i \in 1..Len(Uppers) : Uppers[i] = c]
    ELSE c

\* s.lower()
Lower(s) == [i \in 1..Len(s) |-> LowerChar(s[i])]

\* s.startswith(p)
StartsWith(s, p) == Len(p) <= Len(s) /\ SubSeq(s, 1, Len(p)) = p

\* sub in s
Contains(s, sub) ==
    \E i \in 0..(Len(s) - Len(sub)) : SubSeq(s, i + 1, i + Len(sub)) = sub

\* s.replace(c, '') for a one-character c
RECURSIVE Remove(_, _)
Remove(s, c) ==
    IF s = <<>> THEN <<>>
    ELSE IF s[1] = c THEN Remove(Tail(s), c)
    ELSE <<s[1]>> \o Remove(Tail(s), c)

RECURSIVE LStrip(_)
LStrip(s) ==
    IF s # <<>> /\ s[1] \in Whitespace THEN LStrip(Tail(s)) ELSE s

RECURSIVE RStrip(_)
RStrip(s) ==
    IF s # <<>> /\ s[Len(s)] \in Whitespace
    THEN RStrip(SubSeq(s, 1, Len(s) - 1)) ELSE s

\* s.strip()
Strip(s) == RStrip(LStrip(s))

\* str(n) for n >= 0
RECURSIVE Str(_)
Str(n) ==
    IF n < 10 THEN <<Digits[n + 1]>>
    ELSE Str(n \div 10) \o <<Digits[(n % 10) + 1]>>

\* s.zfill(width)
RECURSIVE ZFill(_, _)
ZFill(s, width) == IF Len(s) >= width THEN s ELSE ZFill(<<"0">> \o s, width)

IsDigit(c) == \E i \in 1..Len(Digits) : Digits[i] = c

DigitValue(c) == (CHOOSE i \in 1..Len(Digits) : Digits[i] = c) - 1

\* int(s) for a string of decimal digits; anything else raises ValueError.
IntRaises(s) == s = <<>> \/ \E i \in 1..Len(s) : ~IsDigit(s[i])

RECURSIVE Int_(_)
Int_(s) ==
    IF s = <<>> THEN 0
    ELSE 10 * Int_(SubSeq(s, 1, Len(s) - 1)) + DigitValue(s[Len(s)])

\* An Optional[str]: None, or a str.
NoneStr == [isNone |-> TRUE, val |-> <<>>]
Some(s) == [isNone |-> FALSE, val |-> s]

\* `not v` for an Optional[str]: None and '' are falsy.
Falsy(v) == v.isNone \/ v.val = <<>>

Min(a, b) == IF a <= b THEN a ELSE b

--------------------------------------------------------------------------
(* get_cik (lines 83-106) *)

\* The lookup document: whether it holds a <cik> tag, and the tag's text.
\* soup.find('cik') is None without the tag; int() of a non-number raises
\* and the handler on line 104 returns None.
get_cik(resp, body) ==
    IF Truthy(resp) /\ resp.status = 200                            \* 90
    THEN IF body.hasCik                                             \* 96
         THEN IF IntRaises(Strip(body.text))
              THEN NoneStr                                          \* 104-106
              ELSE Some(ZFill(Str(Int_(Strip(body.text))), 10))     \* 97-99
         ELSE NoneStr                                               \* 102
    ELSE NoneStr                                                    \* 102

--------------------------------------------------------------------------
(* get_10k_accession (lines 108-142) *)

\* A variant without the form test.
FirstFilingAnyForm(forms, dates, accessions, yr, i) ==
    LET n == Min(Len(forms), Min(Len(dates), Len(accessions)))
        hits == {j \in i..n : StartsWith(dates[j], Str(yr))}
    IN  IF hits = {} THEN NoneStr
        ELSE Some(Remove(accessions[CHOOSE j \in hits : \A k \in hits : j <= k], "-"))

\* The first accession, in zip order, of a 10-K filed in the yr.
RECURSIVE FirstFiling(_, _, _, _, _)
FirstFiling(forms, dates, accessions, yr, i) ==
    IF i > Min(Len(forms), Min(Len(dates), Len(accessions)))        \* zip, 132
    THEN NoneStr                                                    \* 138
    ELSE IF forms[i] = "10-K" /\ StartsWith(dates[i], Str(yr))    \* 133
    THEN Some(Remove(accessions[i], "-"))                           \* 135
    ELSE FirstFiling(forms, dates, accessions, yr, i + 1)

\* body.json is FALSE for a body response.json() raises on (line 140).
get_10k_accession(resp, body, yr) ==
    IF ~Truthy(resp) THEN NoneStr                                   \* 119-120
    ELSE IF ~body.json THEN NoneStr                                 \* 140-142
    ELSE FirstFiling(body.form, body.filingDate, body.accessionNumber,
                     yr, 1)

--------------------------------------------------------------------------
(* get_exhibit_21_url (lines 144-171) *)

ex21 == <<"e", "x", "2", "1">>

\* A variant that compares without lower().
IsExhibit21CaseSensitive(name) == Contains(name, ex21)

\* 'ex21' in name.lower(), line 164.
IsExhibit21(name) == Contains(Lower(name), ex21)

\* Index of the first item whose name matches, 0 when none does.
RECURSIVE FirstExhibit(_, _)
FirstExhibit(items, i) ==
    IF i > Len(items) THEN 0
    ELSE IF IsExhibit21(items[i]) THEN i
    ELSE FirstExhibit(items, i + 1)

\* The URL of line 165, kept as its three variable path segments
\* <<cik, accession, name>> under https://www.sec.gov/Archives/edgar/data/.
get_exhibit_21_url(resp, body, id, acc) ==
    IF ~Truthy(resp) THEN [isNone |-> TRUE, val |-> <<>>]           \* 156-157
    ELSE IF ~body.json THEN [isNone |-> TRUE, val |-> <<>>]         \* 169-171
    ELSE LET i == FirstExhibit(body.items, 1)
         IN  IF i = 0 THEN [isNone |-> TRUE, val |-> <<>>]          \* 167
             ELSE [isNone |-> FALSE,
                   val |-> <<ZFill(id, 10), Remove(acc, "-"),
                             body.items[i]>>]                      \* 165

--------------------------------------------------------------------------
(* parse_subsidiaries (lines 173-207) *)

\* A document is [tables, lines]: the <table> elements in document order,
\* each a sequence of rows, each row a sequence of cell texts; and the lines
\* of text outside the tables.  soup.get_text().split('\n') gives the cell
\* texts, each on a line of its own, followed by the other lines.

RECURSIVE Flatten(_)
Flatten(ss) == IF ss = <<>> THEN <<>> ELSE ss[1] \o Flatten(Tail(ss))

Range(s) == {s[i] : i \in 1..Len(s)}

\* `text and len(text) > 2`
LongEnough(text) == Len(text) > 2

\* The texts one row appends (lines 186-191).
RowEntries(row) ==
    SelectSeq([i \in 1..Len(row) |-> Strip(row[i])], LongEnough)

\* The texts the table loop appends (lines 184-191).
TableEntries(tables) ==
    Flatten([t \in 1..Len(tables) |->
        Flatten([r \in 1..Len(tables[t]) |-> RowEntries(tables[t][r])])])

\* A variant of the pattern that accepts any letter.
RECURSIVE MatchesPatternAnyCase(_)
MatchesPatternAnyCase(line) ==
    IF line = <<>> THEN FALSE
    ELSE IF line[1] \in Whitespace \cup {Bullet}
    THEN MatchesPatternAnyCase(Tail(line))
    ELSE line[1] \in UpperAZ \/ line[1] \in Range(Lowers)

\* re.match(r'^[\s<bullet>]*[A-Z].*', line), line 201.
RECURSIVE MatchesPattern(_)
MatchesPattern(line) ==
    IF line = <<>> THEN FALSE
    ELSE IF line[1] \in Whitespace \cup {Bullet} THEN MatchesPattern(Tail(line))
    ELSE line[1] \in UpperAZ

GetTextLines(doc) ==
    Flatten([t \in 1..Len(doc.tables) |-> Flatten(doc.tables[t])]) \o doc.lines

KeptLine(line) == LongEnough(line) /\ MatchesPattern(line)         \* 199-201

\* The lines the text loop appends (lines 195-202).
TextEntries(doc) ==
    SelectSeq([i \in 1..Len(GetTextLines(doc)) |-> Strip(GetTextLines(doc)[i])],
              KeptLine)

\* The list `subsidiaries` on reaching line 204.
Collected(doc) ==
    IF TableEntries(doc.tables) # <<>>                              \* 194
    THEN TableEntries(doc.tables)
    ELSE TextEntries(doc)

\* list(set(xs)): the distinct elements, in the iteration order of a set of
\* str, which depends on the process's hash seed: any order.
RECURSIVE Perms(_)
Perms(S) ==
    IF S = {} THEN {<<>>}
    ELSE UNION {{<<x>> \o q : q \in Perms(S \ {x})} : x \in S}

ListOfSet(xs) == Perms(Range(xs))

\* The lists a call can return.
parse_subsidiaries(resp, doc) ==
    IF ~Truthy(resp) THEN {<<>>}                                    \* 177-178
    ELSE ListOfSet(Collected(doc))                                  \* 204

--------------------------------------------------------------------------
(* Inputs *)

RECURSIVE SeqsOf(_, _)
SeqsOf(S, n) ==
    IF n = 0 THEN {<<>>}
    ELSE {Append(s, x) : s \in SeqsOf(S, n - 1), x \in S}

SeqsUpTo(S, n) == UNION {SeqsOf(S, k) : k \in 0..n}

\* for year in range(2018, current_year + 1), line 222
FirstYear == 2018
Years == FirstYear..CurrentYear

\* What get_with_retry can hand to a stage.
StageResponses == {None, Response(200), Response(404)}

Dates == {<<"2", "0", "1", "8", "-", "1", "2", "-", "3", "1">>,
          <<"2", "0", "1", "9", "-", "0", "2", "-", "2", "8">>}

Accessions == {<<"0", "1", "-", "1", "9", "-", "1">>,
               <<"0", "1", "-", "1", "8", "-", "7">>}

Filings == [form : {"10-K", "10-Q"}, filingDate : Dates,
            accessionNumber : Accessions]

\* The JSON of a submissions response, from its entries.
Submissions(entries) ==
    [json |-> TRUE,
     form |-> [i \in 1..Len(entries) |-> entries[i].form],
     filingDate |-> [i \in 1..Len(entries) |-> entries[i].filingDate],
     accessionNumber |-> [i \in 1..Len(entries) |-> entries[i].accessionNumber]]

\* A body response.json() raises on.
NotJson == [json |-> FALSE, form |-> <<>>, filingDate |-> <<>>,
            accessionNumber |-> <<>>]

ex21_htm == <<"e", "x", "2", "1", ".", "h", "t", "m">>
ex10_htm == <<"e", "x", "1", "0", ".", "h", "t", "m">>
ex21_subsidiaries_htm ==
    <<"e", "x", "2", "1", "_", "s", "u", "b", "s", "i", "d", "i", "a", "r",
      "i", "e", "s", ".", "h", "t", "m">>
EX21_HTM == <<"E", "X", "2", "1", ".", "H", "T", "M">>
ex_21_htm == <<"e", "x", "-", "2", "1", ".", "h", "t", "m">>

ItemNames == {ex21_htm, ex10_htm, ex21_subsidiaries_htm, EX21_HTM, ex_21_htm}

Acme_GmbH == <<"A", "c", "m", "e", " ", "G", "m", "b", "H">>
Germany == <<"G", "e", "r", "m", "a", "n", "y">>
Acme_Ltd == <<"A", "c", "m", "e", " ", "L", "t", "d">>
UK == <<"U", "K">>
Acme_Corp == <<"A", "c", "m", "e", " ", "C", "o", "r", "p">>
acme_corp == <<"a", "c", "m", "e", " ", "c", "o", "r", "p">>
Bullet_Acme_Corp == <<Bullet>> \o Acme_Corp

TwoRowTable == <<<<Acme_GmbH, Germany>>, <<Acme_Ltd, UK>>>>

Tables == {TwoRowTable,
           <<<<Acme_GmbH, Germany>>, <<Acme_GmbH, Germany>>>>,
           <<<<Acme_Ltd, UK>>>>,
           <<<<Acme_Ltd>>, <<<<" ">> \o Germany \o <<" ">>, <<>>>>>>,
           <<<<UK, <<>>>>>>,
           <<>>}

LineTexts == {Acme_Corp, acme_corp, Bullet_Acme_Corp}

Docs == [tables : SeqsUpTo(Tables, MaxTables), lines : SeqsUpTo(LineTexts, MaxLines)]

EmptyDoc == [tables |-> <<>>, lines |-> <<>>]

--------------------------------------------------------------------------
(* save_results (lines 250-293) *)

WordChars == UpperAZ \cup Range(Lowers) \cup Range(Digits) \cup {"_"}

\* re.sub(r'[^\w\-_\. ]', '_', company_name), line 257
SafeName(name) ==
    [i \in 1..Len(name) |->
        IF name[i] \in WordChars \cup {"-", "_", ".", " "} THEN name[i] ELSE "_"]

\* The characters of the model in code-point order.
CodePoints ==
    <<"\t", "\n", "\r", " ", "&", "-", ".", "/">> \o Digits \o Uppers
    \o <<"_">> \o Lowers \o <<Bullet>>

Ord(c) == CHOOSE i \in 1..Len(CodePoints) : CodePoints[i] = c

\* a < b for two str
RECURSIVE StrLess(_, _)
StrLess(a, b) ==
    IF b = <<>> THEN FALSE
    ELSE IF a = <<>> THEN TRUE
    ELSE IF a[1] = b[1] THEN StrLess(Tail(a), Tail(b))
    ELSE Ord(a[1]) < Ord(b[1])

RECURSIVE InsertRow(_, _)
InsertRow(sorted, row) ==
    IF sorted = <<>> THEN <<row>>
    ELSE IF StrLess(row.subsidiary, sorted[1].subsidiary)
    THEN <<row>> \o sorted
    ELSE <<sorted[1]>> \o InsertRow(Tail(sorted), row)

\* year_data.sort_values('subsidiary'), line 269
RECURSIVE SortBySubsidiary(_)
SortBySubsidiary(rows) ==
    IF rows = <<>> THEN <<>>
    ELSE InsertRow(SortBySubsidiary(SubSeq(rows, 1, Len(rows) - 1)),
                   rows[Len(rows)])

\* sheet_name = f'{year}', cut to 31 characters (lines 272-274)
SheetName(y) == SubSeq(Str(y), 1, Min(Len(Str(y)), 31))

RowsOfYear(rs, y) == SelectSeq(rs, LAMBDA r : r.year = y)

\* The workbook written for the records: one sheet per year that has
\* records (df.groupby('year')), its rows sorted by subsidiary.
Workbook(rs) ==
    {[name |-> SheetName(y), rows |-> SortBySubsidiary(RowsOfYear(rs, y))] :
        y \in {rs[i].year : i \in 1..Len(rs)}}

NoFile == [exists |-> FALSE, sheets |-> {}]

--------------------------------------------------------------------------
(* The batch: companies.csv and what the upstream can answer *)

AllCompanies ==
    <<[company_name |-> <<"E", "M", "N", " ", "C", "o">>, ticker |-> <<"E", "M", "N">>],
      [company_name |-> <<"A", "&", "B">>, ticker |-> <<"A", "B">>],
      [company_name |-> <<"A", "/", "B">>, ticker |-> <<"A", "B", "X">>]>>

Companies == SubSeq(AllCompanies, 1, Min(NumCompanies, Len(AllCompanies)))

FileNames == {SafeName(Companies[i].company_name) : i \in 1..Len(Companies)}

\* The lookup documents get_cik can be answered with: a <cik> tag holding a
\* number, no <cik> tag, a <cik> tag holding something int() rejects.
CikBodies == {[hasCik |-> TRUE, text |-> <<"4", "2">>],
              [hasCik |-> FALSE, text |-> <<>>],
              [hasCik |-> TRUE, text |-> <<"n", "/", "a">>]}

\* Upstream answers to the requests of one get_with_retry call.
PipelineOuts == {<<200, 200, 200, 200>>,
                 <<429, 200, 200, 200>>,
                 <<404, 200, 200, 200>>,
                 <<429, 403, RequestException, 200>>}

Filing2018 == [form |-> "10-K",
               filingDate |-> <<"2", "0", "1", "8", "-", "1", "2", "-", "3", "1">>,
               accessionNumber |-> <<"0", "1", "-", "1", "8", "-", "7">>]
Filing2019 == [form |-> "10-K",
               filingDate |-> <<"2", "0", "1", "9", "-", "0", "2", "-", "2", "8">>,
               accessionNumber |-> <<"0", "1", "-", "1", "9", "-", "1">>]

PipelineSubmissions == {NotJson,
                        Submissions(<<Filing2019, Filing2018>>),
                        Submissions(<<Filing2019>>)}

PipelineIndexes == {[json |-> FALSE, items |-> <<>>],
                    [json |-> TRUE, items |-> <<ex10_htm, ex21_htm>>],
                    [json |-> TRUE, items |-> <<ex10_htm>>]}

PipelineDocs == {EmptyDoc,
                 [tables |-> <<<<<<Acme_GmbH, Germany>>>>>>, lines |-> <<>>],
                 [tables |-> <<>>, lines |-> <<Acme_Corp, acme_corp>>]}

NoUrl == [isNone |-> TRUE, val |-> <<>>]

MainIdle ==
    /\ pc = "main"
    /\ ci = 0
    /\ cik = NoneStr
    /\ year = FirstYear
    /\ accession = NoneStr
    /\ url = NoUrl
    /\ results = <<>>
    /\ year_log = [y \in Years |-> "none"]
    /\ cik_errors = 0
    /\ requested = {}
    /\ exc = FALSE
    /\ save_log = "none"
    /\ sink = [f \in FileNames |-> NoFile]
    /\ cik_calls = 0
    /\ ids_used = {}
    /\ saves = 0
    /\ sleeps = 0

--------------------------------------------------------------------------
(* Each stage alone: one call on every input *)

FetchIdle ==
    /\ f_outs = <<>> /\ f_max = 0 /\ f_wait = 0 /\ f_called = FALSE
    /\ f_ret = [resp |-> None, events |-> <<>>]

FilingIdle ==
    /\ g_resp = None /\ g_body = NotJson /\ g_year = FirstYear
    /\ g_called = FALSE /\ g_ret = NoneStr

ExhibitIdle ==
    /\ x_resp = None /\ x_body = [json |-> FALSE, items |-> <<>>]
    /\ x_called = FALSE /\ x_ret = [isNone |-> TRUE, val |-> <<>>]

ParseIdle ==
    /\ p_resp = None /\ p_doc = EmptyDoc /\ p_called = FALSE /\ p_ret = <<>>

\* No upstream answers anything.
NoUpstream ==
    [filing |-> [resp |-> None, body |-> NotJson],
     exhibit |-> [resp |-> None, body |-> [json |-> FALSE, items |-> <<>>]],
     document |-> [resp |-> None, doc |-> EmptyDoc]]

RerunIdle == r_up = NoUpstream /\ r_year = FirstYear /\ r_runs = <<>>

FilingInit ==
    /\ g_resp \in StageResponses
    /\ g_body \in {NotJson} \cup {Submissions(e) : e \in SeqsUpTo(Filings, MaxFilings)}
    /\ g_year \in Years
    /\ g_called = FALSE
    /\ g_ret = NoneStr
    /\ FetchIdle /\ ExhibitIdle /\ ParseIdle /\ MainIdle /\ RerunIdle

FilingCall ==
    /\ ~g_called
    /\ g_called' = TRUE
    /\ g_ret' = get_10k_accession(g_resp, g_body, g_year)
    /\ UNCHANGED <<g_resp, g_body, g_year, fvars, xvars, pvars, mvars, rvars>>

SpecFiling == FilingInit /\ [][FilingCall]_vars

\* The identifier and accession the exhibit locator is called with.
SomeCik == <<"4", "2">>
SomeAccession == <<"0", "1", "-", "1", "9", "-", "1">>

ExhibitInit ==
    /\ x_resp \in StageResponses
    /\ x_body \in {[json |-> FALSE, items |-> <<>>]}
                  \cup [json : {TRUE}, items : SeqsUpTo(ItemNames, MaxItems)]
    /\ x_called = FALSE
    /\ x_ret = [isNone |-> TRUE, val |-> <<>>]
    /\ FetchIdle /\ FilingIdle /\ ParseIdle /\ MainIdle /\ RerunIdle

ExhibitCall ==
    /\ ~x_called
    /\ x_called' = TRUE
    /\ x_ret' = get_exhibit_21_url(x_resp, x_body, SomeCik, SomeAccession)
    /\ UNCHANGED <<x_resp, x_body, fvars, gvars, pvars, mvars, rvars>>

SpecExhibit == ExhibitInit /\ [][ExhibitCall]_vars

ParseInit ==
    /\ p_resp \in StageResponses
    /\ p_doc \in Docs
    /\ p_called = FALSE
    /\ p_ret = <<>>
    /\ FetchIdle /\ FilingIdle /\ ExhibitIdle /\ MainIdle /\ RerunIdle

ParseCall ==
    /\ ~p_called
    /\ p_called' = TRUE
    /\ p_ret' \in parse_subsidiaries(p_resp, p_doc)
    /\ UNCHANGED <<p_resp, p_doc, fvars, gvars, xvars, mvars, rvars>>

SpecParse == ParseInit /\ [][ParseCall]_vars

--------------------------------------------------------------------------
(* The fetcher alone: one call against every scripted upstream *)

FetchInit ==
    /\ f_outs \in SeqsOf(Outcomes, MaxOuts)
    /\ f_max \in 0..(MaxOuts - 1)
    /\ f_wait \in {DefaultInitialWait, 2}
    /\ f_called = FALSE
    /\ f_ret = [resp |-> None, events |-> <<>>]
    /\ FilingIdle /\ ExhibitIdle /\ ParseIdle /\ MainIdle /\ RerunIdle

FetchCall ==
    /\ ~f_called
    /\ f_called' = TRUE
    /\ f_ret' = get_with_retry(f_outs, f_max, f_wait)
    /\ UNCHANGED <<f_outs, f_max, f_wait, gvars, xvars, pvars, mvars, rvars>>

SpecFetch == FetchInit /\ [][FetchCall]_vars

--------------------------------------------------------------------------
(* process_company (lines 209-248), save_results (250-293), main (295-310) *)

\* The response a stage's get_with_retry(url) call gets from the upstream.
Fetched(outs) == get_with_retry(outs, DefaultMaxRetries, DefaultInitialWait)

\* The stage is added to those that issued a request.
Noting(stage, fetched) ==
    IF Requests(fetched.events) > 0 THEN requested \cup {stage} ELSE requested

\* A variant that never takes the branch of line 216.
CikMissingNever(c) == FALSE

\* `if not cik`, line 216
CikMissing(c) == Falsy(c)

\* A variant that leaves the loop.
ContinueAsBreak(y) == [pc |-> "return", year |-> y]

\* A variant that goes on to the document stage of the same year.
ContinueToNextStage(y) == [pc |-> "parse", year |-> y]

\* `continue` (lines 228, 233): on to the loop head with the next year.
Continue(y) == [pc |-> "year", year |-> y + 1]

\* for index, row in companies_df.iterrows(): process_company(...) is
\* entered, results = [] (lines 305-307, 211-214).
MainNext ==
    /\ pc = "main"
    /\ ci < Len(Companies)
    /\ ci' = ci + 1
    /\ pc' = "get_cik"
    /\ results' = <<>>
    /\ cik' = NoneStr
    /\ year' = FirstYear
    /\ accession' = NoneStr
    /\ url' = NoUrl
    /\ year_log' = [y \in Years |-> "none"]
    /\ cik_errors' = 0
    /\ requested' = {}
    /\ exc' = FALSE
    /\ save_log' = "none"
    /\ cik_calls' = 0
    /\ ids_used' = {}
    /\ UNCHANGED <<sink, saves, sleeps,
                   fvars, gvars, xvars, pvars, rvars>>

\* The loop of main is over.
MainDone ==
    /\ pc = "main"
    /\ ci = Len(Companies)
    /\ pc' = "done"
    /\ UNCHANGED <<ci, cik, year, accession, url, results, year_log, cik_errors,
                   requested, exc, save_log, sink, cik_calls, ids_used, saves, sleeps,
                   fvars, gvars, xvars, pvars, rvars>>

\* cik = get_cik(ticker); if not cik: log and return results (215-218).
GetCik ==
    /\ pc = "get_cik"
    /\ \E outs \in PipelineOuts, body \in CikBodies :
         LET fetched == Fetched(outs)
             c == get_cik(fetched.resp, body)
         IN  /\ cik' = c
             /\ requested' = Noting("cik", fetched)
             /\ IF CikMissing(c)
                THEN /\ cik_errors' = cik_errors + 1                \* 217
                     /\ pc' = "return"                              \* 218
                ELSE /\ cik_errors' = cik_errors
                     /\ pc' = "year"
    /\ year' = FirstYear
    /\ cik_calls' = cik_calls + 1
    /\ UNCHANGED <<ci, accession, url, results, year_log, exc, save_log, sink,
                   ids_used, saves, sleeps,
                   fvars, gvars, xvars, pvars, rvars>>

\* A variant that resolves the identifier again at the head of every year.
YearHeadResolvingAgain ==
    /\ pc = "year"
    /\ IF year > CurrentYear
       THEN /\ pc' = "return"
            /\ year_log' = year_log
            /\ UNCHANGED <<cik, cik_calls>>
       ELSE /\ pc' = "filing"
            /\ year_log' = [year_log EXCEPT ![year] = "processing"]
            /\ \E body \in CikBodies : cik' = get_cik(Response(200), body)
            /\ cik_calls' = cik_calls + 1
    /\ UNCHANGED <<ci, year, accession, url, results, cik_errors, requested,
                   exc, save_log, sink, ids_used, saves, sleeps,
                   fvars, gvars, xvars, pvars, rvars>>

\* for year in range(2018, current_year + 1): logger.info (222-223).
YearHead ==
    /\ pc = "year"
    /\ IF year > CurrentYear
       THEN /\ pc' = "return"
            /\ year_log' = year_log
       ELSE /\ pc' = "filing"
            /\ year_log' = [year_log EXCEPT ![year] = "processing"]
    /\ UNCHANGED <<ci, cik, year, accession, url, results, cik_errors, requested,
                   exc, save_log, sink, cik_calls, ids_used, saves, sleeps,
                   fvars, gvars, xvars, pvars, rvars>>

\* accession = get_10k_accession(cik, year); if not accession: continue
\* (225-228).
Filing ==
    /\ pc = "filing"
    /\ \E outs \in PipelineOuts, body \in PipelineSubmissions :
         LET fetched == Fetched(outs)
             a == get_10k_accession(fetched.resp, body, year)
         IN  /\ accession' = a
             /\ requested' = Noting("filing", fetched)
             /\ IF Falsy(a)
                THEN /\ year_log' = [year_log EXCEPT ![year] = "no_filing"]
                     /\ pc' = Continue(year).pc
                     /\ year' = Continue(year).year
                ELSE /\ year_log' = year_log
                     /\ pc' = "exhibit"
                     /\ year' = year
    /\ ids_used' = ids_used \cup {cik.val}                           \* 225
    /\ UNCHANGED <<ci, cik, url, results, cik_errors, exc, save_log, sink,
                   cik_calls, saves, sleeps,
                   fvars, gvars, xvars, pvars, rvars>>

\* url = get_exhibit_21_url(cik, accession); if not url: continue (230-233).
Exhibit ==
    /\ pc = "exhibit"
    /\ \E outs \in PipelineOuts, body \in PipelineIndexes :
         LET fetched == Fetched(outs)
             u == get_exhibit_21_url(fetched.resp, body, cik.val, accession.val)
         IN  /\ url' = u
             /\ requested' = Noting("exhibit", fetched)
             /\ IF u.isNone
                THEN /\ year_log' = [year_log EXCEPT ![year] = "no_exhibit"]
                     /\ pc' = Continue(year).pc
                     /\ year' = Continue(year).year
                ELSE /\ year_log' = year_log
                     /\ pc' = "parse"
                     /\ year' = year
    /\ ids_used' = ids_used \cup {cik.val}                           \* 230
    /\ UNCHANGED <<ci, cik, accession, results, cik_errors, exc, save_log, sink,
                   cik_calls, saves, sleeps,
                   fvars, gvars, xvars, pvars, rvars>>

\* The records of lines 237-242 for one year's subsidiaries.
Stamped(company_name, y, subsidiaries) ==
    [i \in 1..Len(subsidiaries) |->
        [company |-> company_name, year |-> y, subsidiary |-> subsidiaries[i]]]

\* subsidiaries = parse_subsidiaries(url); if subsidiaries: append a record
\* for each and log the count (235-243); then the next year.
Parse ==
    /\ pc = "parse"
    /\ \E outs \in PipelineOuts, doc \in PipelineDocs :
         LET fetched == Fetched(outs)
         IN  /\ requested' = Noting("document", fetched)
             /\ \E subsidiaries \in parse_subsidiaries(fetched.resp, doc) :
                  IF subsidiaries # <<>>
                  THEN /\ results' = results \o
                             Stamped(Companies[ci].company_name, year, subsidiaries)
                       /\ year_log' = [year_log EXCEPT ![year] = "found"]
                  ELSE /\ results' = results
                       /\ year_log' = year_log
    /\ pc' = "year"
    /\ year' = year + 1
    /\ UNCHANGED <<ci, cik, accession, url, cik_errors, exc, save_log, sink,
                   cik_calls, ids_used, saves, sleeps,
                   fvars, gvars, xvars, pvars, rvars>>

\* An exception raised in the loop body and caught by no stage reaches the
\* handler of process_company, which logs it; results is returned as it is
\* (245-248).
Unexpected ==
    /\ pc \in {"filing", "exhibit", "parse"}
    /\ exc' = TRUE
    /\ pc' = "return"
    /\ UNCHANGED <<ci, cik, year, accession, url, results, year_log, cik_errors,
                   requested, save_log, sink, cik_calls, ids_used, saves, sleeps,
                   fvars, gvars, xvars, pvars, rvars>>

\* save_results(results, company_name), line 308.  An exception while the
\* workbook is opened is caught and logged (292-293).
SaveResults ==
    /\ pc = "return"
    /\ \E raises \in BOOLEAN :
         LET filename == SafeName(Companies[ci].company_name)       \* 257-258
         IN  IF raises
             THEN /\ save_log' = "error"                            \* 293
                  /\ sink' = sink
             ELSE IF results # <<>>                                 \* 263
             THEN /\ save_log' = "saved"                            \* 288
                  /\ sink' = [sink EXCEPT ![filename] =
                                 [exists |-> TRUE, sheets |-> Workbook(results)]]
             ELSE /\ save_log' = "empty"                            \* 290
                  /\ sink' = sink
    /\ pc' = "sleep"
    /\ saves' = saves + 1
    /\ UNCHANGED <<ci, cik, year, accession, url, results, year_log, cik_errors,
                   requested, exc, cik_calls, ids_used, sleeps,
                   fvars, gvars, xvars, pvars, rvars>>

\* A variant that goes to the next row without the time.sleep(1).
MainSleepSkipped ==
    /\ pc = "sleep"
    /\ pc' = "main"
    /\ UNCHANGED <<ci, cik, year, accession, url, results, year_log, cik_errors,
                   requested, exc, save_log, sink, cik_calls, ids_used, saves,
                   sleeps, fvars, gvars, xvars, pvars, rvars>>

\* time.sleep(1), then the next row (310).
MainSleep ==
    /\ pc = "sleep"
    /\ pc' = "main"
    /\ sleeps' = sleeps + 1
    /\ UNCHANGED <<ci, cik, year, accession, url, results, year_log, cik_errors,
                   requested, exc, save_log, sink, cik_calls, ids_used, saves,
                   fvars, gvars, xvars, pvars, rvars>>

Init == MainIdle /\ FetchIdle /\ FilingIdle /\ ExhibitIdle /\ ParseIdle /\ RerunIdle

Next ==
    \/ MainNext
    \/ MainDone
    \/ GetCik
    \/ YearHead
    \/ Filing
    \/ Exhibit
    \/ Parse
    \/ Unexpected
    \/ SaveResults
    \/ MainSleep

Spec == Init /\ [][Next]_vars

--------------------------------------------------------------------------
(* One year of process_company (lines 225-243), run more than once *)

\* The upstream states: what each stage's request is answered with.
Upstreams ==
    [filing : [resp : StageResponses, body : PipelineSubmissions],
     exhibit : [resp : StageResponses, body : PipelineIndexes],
     document : [resp : StageResponses, doc : PipelineDocs]]

\* What the body of the year loop can produce for one year against one
\* upstream: what was logged last and the records appended to results.
YearResults(up, company_name, id, y) ==
    LET a == get_10k_accession(up.filing.resp, up.filing.body, y)      \* 225
    IN  IF Falsy(a)
        THEN {[tag |-> "no_filing", rows |-> <<>>]}                    \* 226-228
        ELSE LET u == get_exhibit_21_url(up.exhibit.resp, up.exhibit.body,
                                         id, a.val)                    \* 230
             IN  IF u.isNone
                 THEN {[tag |-> "no_exhibit", rows |-> <<>>]}          \* 231-233
                 ELSE {[tag |-> IF subsidiaries # <<>> THEN "found"
                                ELSE "processing",
                        rows |-> Stamped(company_name, y, subsidiaries)] :
                       subsidiaries \in
                         parse_subsidiaries(up.document.resp, up.document.doc)}

RerunInit ==
    /\ r_up \in Upstreams
    /\ r_year \in Years
    /\ r_runs = <<>>
    /\ MainIdle /\ FetchIdle /\ FilingIdle /\ ExhibitIdle /\ ParseIdle

\* The program is run once more, in a new process, against the same upstream.
Rerun ==
    /\ Len(r_runs) < MaxRuns
    /\ \E res \in YearResults(r_up, AllCompanies[1].company_name, SomeCik, r_year) :
         r_runs' = Append(r_runs, res)
    /\ UNCHANGED <<r_up, r_year, fvars, gvars, xvars, pvars, mvars>>

SpecRerun == RerunInit /\ [][Rerun]_vars

--------------------------------------------------------------------------
(* Claims about get_with_retry, checked under SpecFetch *)

Three429Then200 == <<429, 429, 429, 200>>

\* C2 (as stated): called with the defaults against 429, 429, 429, 200,
\* get_with_retry returns the 200 response, having waited 1+2+4 seconds of
\* backoff.
C2_Three429ThenSuccess ==
    (/\ f_called
     /\ f_max = DefaultMaxRetries
     /\ f_wait = DefaultInitialWait
     /\ SubSeq(f_outs, 1, 4) = Three429Then200)
    => /\ f_ret.resp = Response(200)
       /\ BackoffTotal(f_ret.events) = 10 * (1 + 2 + 4)

\* The attempts the budget allows all ended in 429, 403 or an exception.
AllAttemptsFailed ==
    \A k \in 1..f_max : f_outs[k] \in {429, 403, RequestException}

\* C3: get_with_retry returns after at most max_retries requests; when every
\* attempt of the budget ended in 429, 403 or a transport error it returns
\* None; and each stage maps None to what it returns for absent data.
C3_BoundedAttemptsAndFailureIsAbsence ==
    f_called =>
      /\ Requests(f_ret.events) <= f_max
      /\ AllAttemptsFailed => (f_ret.resp = None /\ Requests(f_ret.events) = f_max)
      /\ f_ret.resp = None =>
           /\ \A b \in CikBodies : get_cik(f_ret.resp, b) = NoneStr
           /\ \A e \in SeqsUpTo(Filings, 1), y \in Years :
                  /\ get_10k_accession(f_ret.resp, Submissions(e), y)
                       = get_10k_accession(Response(200), Submissions(<<>>), y)
                  /\ get_10k_accession(f_ret.resp, Submissions(e), y) = NoneStr
           /\ \A n \in ItemNames :
                  /\ get_exhibit_21_url(f_ret.resp, [json |-> TRUE, items |-> <<n>>],
                                        SomeCik, SomeAccession)
                       = get_exhibit_21_url(Response(200), [json |-> TRUE, items |-> <<>>],
                                            SomeCik, SomeAccession)
                  /\ get_exhibit_21_url(f_ret.resp, [json |-> TRUE, items |-> <<n>>],
                                        SomeCik, SomeAccession).isNone
           /\ \A d \in {[tables |-> <<TwoRowTable>>, lines |-> <<>>],
                        [tables |-> <<>>, lines |-> <<Acme_Corp>>]} :
                  /\ parse_subsidiaries(f_ret.resp, d)
                       = parse_subsidiaries(Response(200), EmptyDoc)
                  /\ parse_subsidiaries(f_ret.resp, d) = {<<>>}

\* A call whose whole budget of three attempts failed, in a mix of causes.
C3_Witness ==
    /\ f_called
    /\ f_max = DefaultMaxRetries
    /\ SubSeq(f_outs, 1, 3) = <<429, 403, RequestException>>
    /\ f_ret.resp = None
    /\ Requests(f_ret.events) = 3

\* Index in ev of request number k, counted from 0.
RequestIndex(ev, k) ==
    CHOOSE i \in 1..Len(ev) :
        /\ ev[i].e = "request"
        /\ Cardinality({j \in 1..i : ev[j].e = "request"}) = k + 1

\* The wait between request k and what follows it (the next request's own
\* time.sleep(0.1) left out), 0 when there is none.
WaitAfter(ev, k) ==
    LET i == RequestIndex(ev, k)
    IN  IF /\ i < Len(ev)
           /\ ev[i + 1].e = "sleep"
           /\ (i + 1 = Len(ev) \/ ev[i + 2].e = "sleep")
        THEN ev[i + 1].t
        ELSE 0

WaitSeq(ev) == [k \in 1..Requests(ev) |-> WaitAfter(ev, k - 1)]

\* C12: a 429 on attempt k is followed by a wait of initial_wait * 2^k
\* seconds, a 403 by the fixed wait of 10 seconds whatever k is; both spend
\* an attempt, so a budget answered only by 429 and 403 ends in None.
C12_BackoffAndCooldownShareBudget ==
    f_called =>
      /\ \A k \in 0..(Requests(f_ret.events) - 1) :
           /\ f_outs[k + 1] = 429
                => WaitAfter(f_ret.events, k) = 10 * f_wait * (2 ^ k)
           /\ f_outs[k + 1] = 403
                => WaitAfter(f_ret.events, k) = 10 * 10
      /\ (\A k \in 1..f_max : f_outs[k] \in {429, 403})
           => /\ f_ret.resp = None
              /\ Requests(f_ret.events) = f_max

\* A budget of three spent on 429, 403, 429 with a base wait of 2 seconds.
C12_Witness ==
    /\ f_called
    /\ f_max = 3
    /\ f_wait = 2
    /\ SubSeq(f_outs, 1, 3) = <<429, 403, 429>>
    /\ f_ret.resp = None
    /\ WaitSeq(f_ret.events) = <<20, 100, 80>>

\* The script with every 429 replaced by a transport failure.
TransportInsteadOf429(outs) ==
    [i \in 1..Len(outs) |-> IF outs[i] = 429 THEN RequestException ELSE outs[i]]

\* C13 (as stated): replacing every 429 of the script by a transport failure
\* gives the same result and the same sequence of waits.
C13_TransportFailureLike429 ==
    f_called =>
      LET other == get_with_retry(TransportInsteadOf429(f_outs), f_max, f_wait)
      IN  /\ other.resp = f_ret.resp
          /\ WaitSeq(other.events) = WaitSeq(f_ret.events)

\* C13 (amended): the replacement gives the same result, the same requests
\* and the same waits, except after the last attempt of the budget: a
\* transport failure there is followed by no wait, a 429 by its backoff.  A
\* transport failure on an earlier attempt k is followed by
\* initial_wait * 2^k seconds and a further attempt.
C13_TransportFailureLike429ButLast ==
    f_called =>
      LET swapped == TransportInsteadOf429(f_outs)
          other == get_with_retry(swapped, f_max, f_wait)
          n == Requests(f_ret.events)
      IN  /\ other.resp = f_ret.resp
          /\ Requests(other.events) = n
          /\ \A k \in 0..(n - 1) :
               /\ WaitAfter(other.events, k) =
                    IF k = f_max - 1 /\ swapped[k + 1] = RequestException
                    THEN 0
                    ELSE WaitAfter(f_ret.events, k)
               /\ (f_outs[k + 1] = RequestException /\ k < f_max - 1)
                    => /\ WaitAfter(f_ret.events, k) = 10 * f_wait * (2 ^ k)
                       /\ n > k + 1

\* A 429 and a transport failure, then a 429 on the last attempt.
C13_Witness ==
    /\ f_called
    /\ f_max = 3
    /\ f_wait = 1
    /\ SubSeq(f_outs, 1, 3) = <<429, RequestException, 429>>
    /\ WaitSeq(f_ret.events) = <<10, 20, 40>>
    /\ WaitSeq(get_with_retry(TransportInsteadOf429(f_outs), f_max, f_wait).events)
         = <<10, 20, 0>>

\* The script of a second call: the answers in another order.
Rotated(outs) == IF outs = <<>> THEN outs ELSE Tail(outs) \o <<outs[1]>>

\* C14: every request of a call, its first and its retries, and so of two
\* calls in a row, comes immediately after a time.sleep(0.1) of its own,
\* whatever backoff wait went before.
C14_RequestSleepBeforeEveryRequest ==
    f_called =>
      LET ev == f_ret.events \o get_with_retry(Rotated(f_outs), f_max, f_wait).events
      IN  \A i \in 1..Len(ev) :
            ev[i].e = "request" =>
              /\ i > 1
              /\ ev[i - 1].e = "sleep"
              /\ ev[i - 1].t = 1

\* A retry after a backoff: the wait and then the request's own sleep.
C14_Witness ==
    /\ f_called
    /\ f_max = 3
    /\ f_wait = 1
    /\ SubSeq(f_outs, 1, 2) = <<429, 200>>
    /\ f_ret.events = <<Sleep(1), Request, Sleep(10), Sleep(1), Request>>

Retried == {429, 403, RequestException}

\* The number of leading answers of the script that are retried.
RECURSIVE Leading(_)
Leading(outs) ==
    IF outs = <<>> \/ outs[1] \notin Retried THEN 0 ELSE 1 + Leading(Tail(outs))

\* C20: the first answer that is neither 429, 403 nor a transport failure is
\* returned at once, whatever its status, with no wait after it; the call
\* issues one request more than the script has leading retried answers, and
\* at most max_retries.
C20_OtherStatusReturnedAtOnce ==
    f_called =>
      LET lead == Leading(f_outs)
          ev == f_ret.events
      IN  /\ Requests(ev) = Min(lead + 1, f_max)
          /\ lead < f_max =>
               /\ f_ret.resp = Response(f_outs[lead + 1])
               /\ ev[Len(ev)].e = "request"
          /\ lead >= f_max => f_ret.resp = None

\* A 404 after one 429: returned on the second request.
C20_Witness ==
    /\ f_called
    /\ f_max = 3
    /\ SubSeq(f_outs, 1, 2) = <<429, 404>>
    /\ f_ret.resp = Response(404)
    /\ Requests(f_ret.events) = 2

--------------------------------------------------------------------------
(* Claims about get_10k_accession, checked under SpecFiling *)

\* The indices of the record's 10-K filings dated in the year.
Matching10K(body, yr) ==
    {i \in 1..Len(body.form) :
        /\ body.form[i] = "10-K"
        /\ Len(body.filingDate[i]) >= 4
        /\ \A k \in 1..4 : body.filingDate[i][k] = Str(yr)[k]}

Least(S) == CHOOSE i \in S : \A j \in S : i <= j

\* C7: get_10k_accession returns the accession, '-' removed, of the first
\* entry that is a 10-K filed in the year, and None exactly when there is no
\* such entry or no usable response.
C7_FirstMatchingFiling ==
    g_called =>
      LET usable == Truthy(g_resp) /\ g_body.json
          hits   == Matching10K(g_body, g_year)
      IN  /\ g_ret.isNone <=> (~usable \/ hits = {})
          /\ ~g_ret.isNone =>
               /\ g_ret.val = SelectSeq(g_body.accessionNumber[Least(hits)],
                                        LAMBDA c : c # "-")
               /\ "-" \notin Range(g_ret.val)

\* A record whose first matching entry is neither its first entry nor its
\* only match.
C7_Witness ==
    /\ g_called
    /\ Truthy(g_resp) /\ g_body.json
    /\ Cardinality(Matching10K(g_body, g_year)) >= 2
    /\ 1 \notin Matching10K(g_body, g_year)
    /\ g_body.accessionNumber[2] # g_body.accessionNumber[3]
    /\ ~g_ret.isNone

--------------------------------------------------------------------------
(* Claims about get_exhibit_21_url, checked under SpecExhibit *)

\* The name holds "ex21" in some mix of upper and lower case.
NamesExhibit21(name) ==
    \E i \in 1..(Len(name) - 3) :
        /\ name[i] \in {"e", "E"}
        /\ name[i + 1] \in {"x", "X"}
        /\ name[i + 2] = "2"
        /\ name[i + 3] = "1"

\* C8: get_exhibit_21_url selects the first item of the index whose name
\* holds "ex21" in any case, and returns None when no item does; of
\* ex21.htm, ex10.htm, ex21_subsidiaries.htm it selects ex21.htm.
C8_FirstExhibit21Item ==
    (x_called /\ Truthy(x_resp) /\ x_body.json) =>
      LET hits == {i \in 1..Len(x_body.items) : NamesExhibit21(x_body.items[i])}
      IN  /\ x_ret.isNone <=> hits = {}
          /\ ~x_ret.isNone => x_ret.val[3] = x_body.items[Least(hits)]
          /\ x_body.items = <<ex21_htm, ex10_htm, ex21_subsidiaries_htm>>
               => x_ret.val[3] = ex21_htm

\* An index whose first match is an upper-case name behind a non-match.
C8_Witness ==
    /\ x_called /\ Truthy(x_resp) /\ x_body.json
    /\ x_body.items = <<ex10_htm, EX21_HTM, ex21_htm>>
    /\ x_ret.val[3] = EX21_HTM

--------------------------------------------------------------------------
(* Claims about parse_subsidiaries, checked under SpecParse *)

NonEmptyCells(row) == SelectSeq(row, LAMBDA c : Strip(c) # <<>>)

\* The rows of the document's tables that have two or more non-empty cells.
RecordRows(doc) ==
    SelectSeq(Flatten(doc.tables), LAMBDA row : Len(NonEmptyCells(row)) >= 2)

\* C9 (as stated): for a document with tables, parse_subsidiaries returns one
\* record per row that has two or more non-empty cells, named by the row's
\* first cell, in row order and without deduplication.
C9_OneRecordPerRow ==
    (p_called /\ Truthy(p_resp) /\ RecordRows(p_doc) # <<>>) =>
      /\ Len(p_ret) = Len(RecordRows(p_doc))
      /\ \A i \in 1..Len(p_ret) : p_ret[i] = NonEmptyCells(RecordRows(p_doc)[i])[1]

ThreeLines == [tables |-> <<>>, lines |-> <<Acme_Corp, acme_corp, Bullet_Acme_Corp>>]

\* C10 (as stated): for the lines "Acme Corp", "acme corp", "<bullet>Acme
\* Corp" and no table, the result holds exactly "Acme Corp" and "acme corp".
C10_BulletStrippedCaseKept ==
    (p_called /\ Truthy(p_resp) /\ p_doc = ThreeLines) =>
      Range(p_ret) = {Acme_Corp, acme_corp}

\* C10 (amended): for those lines the result holds exactly "Acme Corp" and
\* "<bullet>Acme Corp", once each: the line starting with a lower-case
\* letter is dropped and the bulleted line is kept with its bullet.
C10_UppercaseLinesKeptWithBullet ==
    (p_called /\ Truthy(p_resp) /\ p_doc = ThreeLines) =>
      /\ Range(p_ret) = {Acme_Corp, Bullet_Acme_Corp}
      /\ Len(p_ret) = 2

C10_Witness ==
    /\ p_called /\ Truthy(p_resp) /\ p_doc = ThreeLines
    /\ p_ret = <<Bullet_Acme_Corp, Acme_Corp>>

\* C16 (as stated): when the table tier yields an entry, the text tier adds
\* none and the table tier's entries are returned as that tier produced
\* them, in its order and with its repetitions.
C16_TableEntriesReturnedAsProduced ==
    (p_called /\ Truthy(p_resp) /\ TableEntries(p_doc.tables) # <<>>) =>
      /\ Range(p_ret) \subseteq Range(TableEntries(p_doc.tables))
      /\ p_ret = TableEntries(p_doc.tables)

--------------------------------------------------------------------------
(* Claims about a year of process_company run again, under SpecRerun *)

\* C11 (as stated): two runs of a (company, year) against the same upstream
\* produce the same result: the same tag and the same records in the same
\* order.
C11_RerunGivesIdenticalYearResult ==
    \A i, j \in 1..Len(r_runs) : r_runs[i] = r_runs[j]

--------------------------------------------------------------------------
(* Claims about process_company, save_results and main, checked under Spec *)

\* process_company has returned for the current company and save_results
\* has run on what it returned.
Saved == pc = "sleep"

CurrentFile == sink[SafeName(Companies[ci].company_name)]

\* C1 (as stated): for a company whose identifier resolved, once
\* process_company and save_results have finished (without an exception in
\* either), every year of the range has a recorded outcome: the records
\* handed to the sink hold an entry for the year and the sink holds a
\* populated sheet for it.
C1_EveryYearHasAnOutcome ==
    (Saved /\ ~Falsy(cik) /\ ~exc /\ save_log # "error") =>
      \A y \in Years :
        /\ \E i \in 1..Len(results) : results[i].year = y
        /\ \E sheet \in CurrentFile.sheets :
             sheet.name = Str(y) /\ sheet.rows # <<>>

YearFails ==
    /\ pc \in {"filing", "exhibit", "parse"}
    /\ ~exc'
    /\ pc' \notin {"exhibit", "parse"}
    /\ year_log'[year] # "found"

\* C5: a year that fails at a stage leaves the records and the logged
\* outcomes of the other years as they are, and the loop goes on to the next
\* year, which is driven through its own pipeline from the filing stage.
C5_FailedYearLeavesOtherYears ==
    [][/\ YearFails =>
            /\ results' = results
            /\ \A y \in Years \ {year} : year_log'[y] = year_log[y]
            /\ pc' = "year"
            /\ year' = year + 1
       /\ (pc = "year" /\ year \in Years) =>
            /\ pc' = "filing"
            /\ year' = year
            /\ results' = results]_vars

\* The first year failed at the exhibit stage and the next year produced
\* rows.
C5_Witness ==
    /\ pc = "return"
    /\ year_log[FirstYear] = "no_exhibit"
    /\ year_log[FirstYear + 1] = "found"
    /\ \E i \in 1..Len(results) : results[i].year = FirstYear + 1
    /\ \A i \in 1..Len(results) : results[i].year # FirstYear

\* C6 (as stated): an exception raised while one year of a company is
\* processed is contained to that year: when process_company returns, the
\* remaining years of the company have been processed too.
C6_ExceptionContainedToYear ==
    (pc = "return" /\ exc) => \A y \in Years : year_log[y] # "none"

\* C15: within a year the exhibit stage is entered only from the filing
\* stage with the accession it returned, the document stage only from the
\* exhibit stage with the URL it built from that accession; a stage that
\* found nothing is followed by the head of the next year (an exception
\* leaves the loop, line 245).
C15_StagesInOrderEachOnThePrevious ==
    [][ /\ pc' = "filing" => (pc = "year" /\ year' = year)
        /\ pc' = "exhibit" =>
             /\ pc = "filing"
             /\ ~Falsy(accession')
             /\ year' = year
        /\ pc' = "parse" =>
             /\ pc = "exhibit"
             /\ accession' = accession
             /\ ~url'.isNone
             /\ url'.val[2] = accession.val
             /\ year' = year
        /\ (pc = "filing" /\ pc' # "return" /\ Falsy(accession'))
             => (pc' = "year" /\ year' = year + 1)
        /\ (pc = "exhibit" /\ pc' # "return" /\ url'.isNone)
             => (pc' = "year" /\ year' = year + 1)
        /\ (pc \in {"year", "filing", "exhibit"}) => results' = results
      ]_vars

\* A year that stopped at the filing stage, and the next year at the
\* document stage with a URL built from its accession.
C15_Witness ==
    /\ pc = "parse"
    /\ year = CurrentYear
    /\ year_log[FirstYear] = "no_filing"
    /\ ~Falsy(accession)
    /\ ~url.isNone
    /\ url.val[2] = accession.val

\* C17 (as stated): before a year other than the first is started,
\* process_company has slept once for every year it has completed, on top
\* of the one sleep of main for every earlier company.
C17_SleepAfterEveryYear ==
    (pc = "year" /\ year > FirstYear) =>
      sleeps >= (ci - 1) + (year - FirstYear)

\* The positions inside process_company.
InProcessCompany == {"get_cik", "year", "filing", "exhibit", "parse"}

\* C18: while company ci is processed, main has saved and then slept once
\* for each earlier company and not yet for this one; process_company
\* returns before save_results is called, once, and the delay follows it.
C18_SaveThenSleepBetweenCompanies ==
    /\ pc \in InProcessCompany => (saves = ci - 1 /\ sleeps = ci - 1)
    /\ pc = "return" =>
         /\ saves = ci - 1 /\ sleeps = ci - 1
         /\ (year > CurrentYear \/ Falsy(cik) \/ exc)
    /\ pc = "sleep" => (saves = ci /\ sleeps = ci - 1)
    /\ pc \in {"main", "done"} => (saves = ci /\ sleeps = ci)

\* The second company is issuing requests after one save and one sleep.
C18_Witness ==
    /\ ci = 2
    /\ pc = "exhibit"
    /\ requested # {}
    /\ saves = 1
    /\ sleeps = 1

\* C19: get_cik is called once in a process_company call, and the filing
\* and exhibit stages of every year are given the value it returned.
C19_IdentifierResolvedOnce ==
    /\ pc \in (InProcessCompany \ {"get_cik"}) \cup {"return", "sleep"}
         => cik_calls = 1
    /\ pc \in InProcessCompany \cup {"return", "sleep"}
         => ids_used \subseteq {cik.val}
    /\ (pc = "parse" /\ ~url.isNone) => url.val[1] = cik.val

\* The last year's exhibit stage is done, after a first year that was
\* found, all with the one identifier.
C19_Witness ==
    /\ pc = "parse"
    /\ year = CurrentYear
    /\ year_log[FirstYear] = "found"
    /\ cik_calls = 1
    /\ ids_used = {cik.val}
    /\ url.val[1] = cik.val

==========================================================================
